---- MODULE Spec2Model ----
(***************************************************************************)
(* Model of the reconciliation engine of pan-scm-cicd: the two managers    *)
(* SCMAddressManager (src/src/scm_cicd/address.py) and                     *)
(* SCMSecurityRuleManager (src/src/scm_cicd/security_rules.py) applying a  *)
(* batch of declared records against the remote gateway (the SCM client).  *)
(*                                                                         *)
(* One behaviour is one invocation of apply_*_from_file, stepped at every  *)
(* gateway call: grouping, one list call per group, one create or update   *)
(* per record, and the optional commit.  Every gateway call either returns *)
(* or raises; what it did is appended to the ghost log `calls`.            *)
(*                                                                         *)
(* Around that run the module models the single operations of the managers *)
(* (SpecOps), the two file loaders (SpecLoad) and the command functions of *)
(* src/src/scm_cicd/cli.py from the command line to the exit code          *)
(* (SpecCli).                                                              *)
(***************************************************************************)
EXTENDS Integers, Sequences, FiniteSets, TLC

VARIABLES
    mgr,              \* which manager runs: "address" or "rule"
    client,           \* self.client: None or the Scm handle
    validation_mode,  \* os.environ SCM_VALIDATION_MODE == "true" (address.py only)
    rulebase,         \* the rulebase argument (security_rules.py only)
    commit_changes,   \* the commit_changes argument of apply_*_from_file
    batch,            \* the validated records returned by the loader, in file order
    remote,           \* the remote system's objects (the gateway's state)
    run,              \* "first" or "second" invocation on the same remote state
    pc,               \* position inside apply_*_from_file
    groups,           \* container_addresses / container_rules (dict, insertion order)
    affected_folders, \* the local set affected_folders of the reconciler
    success,          \* the local flag success of _apply_rules
    gi,               \* index of the group being processed
    ri,               \* index of the record inside that group
    existing_map,     \* existing_address_map / existing_rule_map of the group
    ret,              \* what the reconciler returned: (success, affected_folders)
    commit_result,    \* the dict returned by self.commit, or NoCommit
    result,           \* what apply_*_from_file returned (read when pc = "done")
    calls,            \* ghost: the gateway calls issued so far, in order
    applied,          \* ghost: <<run, batch index>> of the records apply_single has handled
    file,             \* the configuration file a loader is given
    request,          \* the manager operation or CLI command invoked, with its arguments
    loaded,           \* what load_*_from_file did with the file
    op_ret,           \* what a single manager operation returned
    exit_code         \* the exit code of the CLI process, or NoExit while it runs

vars == <<mgr, client, validation_mode, rulebase, commit_changes, batch, remote, run, pc,
          groups, affected_folders, success, gi, ri, existing_map, ret,
          commit_result, result, calls, applied,
          file, request, loaded, op_ret, exit_code>>

\* the state around one apply run: the file, the caller's request, its outcome
outer == <<file, request, loaded, op_ret, exit_code>>

(***************************************************************************)
(* Bounds and value domains                                                *)
(***************************************************************************)

\* longest batch of declared records
MaxBatch == 2

None == "None"
Scm == "Scm"
NoRet == [returned |-> FALSE, success |-> FALSE, affected_folders |-> {}]
NoCommit == [status |-> "NoCommit", job_id |-> None, error |-> None]
NoContainer == <<>>

\* exit_code while the CLI process has not exited
NoExit == -1

\* no file, no request, nothing loaded, nothing returned: the state of the
\* outer layer when apply_*_from_file is entered with its records in hand
NoFile == [exists |-> FALSE, suffix |-> "", syntax |-> "none", shape |-> "none",
           items |-> <<>>]
NoRequest == [op |-> "apply", rec |-> [name |-> "", folder |-> None, snippet |-> None, device |-> None], id |-> 0, name |-> "", container |-> "",
              ctype |-> "", folders |-> <<>>, dry_run |-> FALSE, commit |-> FALSE,
              creds |-> TRUE]
NotLoaded == [how |-> "pending", records |-> <<>>, logged_error |-> FALSE,
              parsed_as |-> "none", error |-> "none"]
NoOpRet == [kind |-> "pending", objs |-> {}, flag |-> FALSE, dict |-> NoCommit,
            exc |-> "none"]

OuterIdle ==
    /\ file = NoFile
    /\ request = NoRequest
    /\ loaded = NotLoaded
    /\ op_ret = NoOpRet
    /\ exit_code = NoExit

\* Python truthiness of an Optional[str]: None and "" are falsy
Truthy(v) == v \notin {None, ""}

Rec(n, f, s, d) == [name |-> n, folder |-> f, snippet |-> s, device |-> d]

\* The declared records the batches are drawn from: every shape of the three
\* container fields the resolver distinguishes (one set, two set, none set,
\* an empty string), two folders, a snippet that shares its name with a
\* folder, and two object names.
RecordPool ==
    { Rec("web1", "DMZ", None, None),
      Rec("web2", "DMZ", None, None),
      Rec("web1", "LAN", None, None),
      Rec("web1", "DMZ", "DMZ", None),
      Rec("web1", None, "DMZ", None),
      Rec("web2", None, "DMZ", "fw1"),
      Rec("web1", "", None, "fw1"),
      Rec("web1", None, None, None) }

RECURSIVE SeqsUpTo(_, _)
SeqsUpTo(S, n) ==
    IF n = 0 THEN { <<>> }
    ELSE LET shorter == SeqsUpTo(S, n - 1)
         IN  shorter \cup { Append(q, x) : q \in shorter, x \in S }

Batches == SeqsUpTo(RecordPool, MaxBatch)

Obj(i, n, c, t) == [id |-> i, name |-> n, container |-> c, ctype |-> t]

\* remote states a run can start from: empty, one object, several containers
InitialRemotes ==
    { {},
      { Obj(1, "web1", "DMZ", "folder") },
      { Obj(1, "web1", "DMZ", "folder"), Obj(2, "web1", "DMZ", "snippet"),
        Obj(3, "web2", "LAN", "folder") } }

Range(q) == { q[i] : i \in 1..Len(q) }

Max(S) == CHOOSE x \in S : \A y \in S : y <= x

(***************************************************************************)
(* Container Resolver                                                      *)
(***************************************************************************)

\* a plausible slip: snippet tested before folder
get_container_info_snippet_first(r) ==
    IF Truthy(r.snippet) THEN <<r.snippet, "snippet">>
    ELSE IF Truthy(r.folder) THEN <<r.folder, "folder">>
    ELSE IF Truthy(r.device) THEN <<r.device, "device">>
    ELSE NoContainer

\* _get_container_info (both managers): folder, then snippet, then device
get_container_info(r) ==
    IF Truthy(r.folder) THEN <<r.folder, "folder">>
    ELSE IF Truthy(r.snippet) THEN <<r.snippet, "snippet">>
    ELSE IF Truthy(r.device) THEN <<r.device, "device">>
    ELSE NoContainer

(***************************************************************************)
(* Reconciler, step 1: grouping by (container, container_type)             *)
(***************************************************************************)

\* a plausible slip: the record is put at the head of its group's list
AddToGroupPrepend(g, key, idx) ==
    IF \E k \in 1..Len(g) : g[k].key = key
    THEN [k \in 1..Len(g) |->
            IF g[k].key = key THEN [g[k] EXCEPT !.recs = <<idx>> \o @] ELSE g[k]]
    ELSE Append(g, [key |-> key, recs |-> <<idx>>])

\* a plausible slip: the group's list is overwritten instead of appended to
AddToGroupOverwrite(g, key, idx) ==
    IF \E k \in 1..Len(g) : g[k].key = key
    THEN [k \in 1..Len(g) |->
            IF g[k].key = key THEN [g[k] EXCEPT !.recs = <<idx>>] ELSE g[k]]
    ELSE Append(g, [key |-> key, recs |-> <<idx>>])

\* if key not in container_x: container_x[key] = []; container_x[key].append(record)
\* (a Python dict keeps insertion order; records are kept by their batch index)
AddToGroup(g, key, idx) ==
    IF \E k \in 1..Len(g) : g[k].key = key
    THEN [k \in 1..Len(g) |->
            IF g[k].key = key THEN [g[k] EXCEPT !.recs = Append(@, idx)] ELSE g[k]]
    ELSE Append(g, [key |-> key, recs |-> <<idx>>])

\* a plausible slip: every container is tracked, whatever its kind
TrackAnyContainer(affected, ci) == affected \cup {ci[1]}

\* if container_type == "folder": affected_folders.add(container)
TrackFolder(affected, ci) ==
    IF ci[2] = "folder" THEN affected \cup {ci[1]} ELSE affected

\* _process_addresses, first loop: the first record without a container
\* makes the function return (False, set()) at once
RECURSIVE GroupAddresses(_, _, _)
GroupAddresses(addresses, i, acc) ==
    IF i > Len(addresses) THEN acc
    ELSE LET container_info == get_container_info(addresses[i])
         IN  IF container_info = NoContainer
             THEN [acc EXCEPT !.aborted = TRUE]
             ELSE GroupAddresses(addresses, i + 1,
                    [acc EXCEPT !.affected = TrackFolder(@, container_info),
                                !.groups = AddToGroup(@, container_info, i)])

\* _apply_rules, first loop: a rule without a container sets success = False
\* and the loop continues with the next rule
RECURSIVE GroupRules(_, _, _)
GroupRules(rules, i, acc) ==
    IF i > Len(rules) THEN acc
    ELSE LET container_info == get_container_info(rules[i])
         IN  IF container_info = NoContainer
             THEN GroupRules(rules, i + 1, [acc EXCEPT !.success = FALSE])
             ELSE GroupRules(rules, i + 1,
                    [acc EXCEPT !.affected = TrackFolder(@, container_info),
                                !.groups = AddToGroup(@, container_info, i)])

(***************************************************************************)
(* The remote gateway (self.client) and the ghost log of its calls         *)
(***************************************************************************)

\* a plausible slip: the container keyword is not passed to list
GwListingEverywhere(key) == remote

\* client.<kind>.list(exact_match=True, <container_type>=container)
GwListing(key) ==
    { o \in remote : o.container = key[1] /\ o.ctype = key[2] }

\* {obj.name: obj for obj in existing}
NameMap(listing) ==
    [n \in { o.name : o \in listing } |-> CHOOSE o \in listing : o.name = n]

\* a plausible slip: the lookup never finds the name, so every record is created
InLookupNever(name, map) == FALSE

\* if record.name in existing_map
InLookup(name, map) == name \in DOMAIN map

FreshId == IF remote = {} THEN 1 ELSE Max({ o.id : o \in remote }) + 1

\* client.<kind>.create(fields): raises on a transport fault or a name conflict
GwCreateFails(r, key, raised) ==
    raised \/ \E o \in GwListing(key) : o.name = r.name

\* client.<kind>.update(model with id): raises on a transport fault or an unknown id
GwUpdateFails(id, raised) ==
    raised \/ ~ \E o \in remote : o.id = id

\* _get_rulebase_enum: "pre" and "post" convert, anything else raises ValueError
RulebaseValid(rb) == rb \in {"pre", "post"}

Call(op, key, idx, name, id, folders, listed, sync, ok) ==
    [run |-> run, op |-> op, key |-> key, idx |-> idx, name |-> name, id |-> id,
     folders |-> folders, listed |-> listed, sync |-> sync, ok |-> ok]

ListCall(key, listed, ok) == Call("list", key, 0, None, 0, <<>>, listed, FALSE, ok)
CreateCall(key, idx, name, id, ok) == Call("create", key, idx, name, id, <<>>, {}, FALSE, ok)
UpdateCall(key, idx, name, id, ok) == Call("update", key, idx, name, id, <<>>, {}, FALSE, ok)

\* the orders list(folders) can give for a set
ListsOf(S) == { q \in [1..Cardinality(S) -> S] : Range(q) = S }

\* what client.commit can return: a result with some status and job id
CommitStatuses == {"SUCCESS", "FAILED", "PENDING", None}
JobIds == {None, "job-1"}
CommitReturns == [status : CommitStatuses, job_id : JobIds, error : {None}]

\* a plausible slip: the error is reported but the status is left out
CommitErrorDictNoStatus == [status |-> None, job_id |-> None, error |-> "error"]

\* {"status": "FAILED", "error": ...}; .get("job_id") of it is None
CommitFailedDict == [status |-> "FAILED", job_id |-> None, error |-> "error"]

CommitCall(folders, sync, ok) == Call("commit", <<>>, 0, None, 0, folders, {}, sync, ok)

(***************************************************************************)
(* Commit Coordinator                                                      *)
(***************************************************************************)

\* a plausible slip: the looser rule, either signal alone being enough
CommitJudgedEither(res) ==
    res.status = "SUCCESS" \/ Truthy(res.job_id)

\* _commit_changes: if job_id and (status == "SUCCESS" or status is None)
AddrCommitJudged(res) ==
    Truthy(res.job_id) /\ (res.status = "SUCCESS" \/ res.status = None)

\* a plausible slip: the status SUCCESS is not accepted, only the missing one
RuleCommitJudgedNoneOnly(res) ==
    Truthy(res.job_id) /\ res.status = None

\* apply_rules_from_file: if job_id and (status == "SUCCESS" or status is None)
RuleCommitJudged(res) ==
    Truthy(res.job_id) /\ (res.status = "SUCCESS" \/ res.status = None)

\* a plausible slip: one commit per folder, so a call carries a single folder
CommitOneFolder(folders) == { <<f>> : f \in folders }

\* self.commit(list(folders)) in _commit_changes
AddrCommitFolders(folders) == ListsOf(folders)

\* self.commit(list(affected_folders)) in apply_rules_from_file
RuleCommitFolders(folders) == ListsOf(folders)

\* commit(self, folders, description="CICD automated commit", sync=True)
CommitSyncDefault == TRUE

\* SCM*Manager.commit: without a client a FAILED dict and no call; otherwise
\* one client.commit call, whose exception becomes a FAILED dict
Commit(folderLists, raises) ==
    IF client = None
    THEN /\ commit_result' = CommitFailedDict
         /\ UNCHANGED calls
    ELSE \E folders \in folderLists, raised \in raises, res \in CommitReturns :
            /\ commit_result' = IF raised THEN CommitFailedDict ELSE res
            /\ calls' = Append(calls, CommitCall(folders, CommitSyncDefault, ~raised))

(***************************************************************************)
(* Initial states                                                          *)
(***************************************************************************)

RunLocalsInit ==
    /\ pc = "start"
    /\ groups = <<>>
    /\ affected_folders = {}
    /\ success = TRUE
    /\ gi = 0
    /\ ri = 0
    /\ existing_map = <<>>
    /\ ret = NoRet
    /\ commit_result = NoCommit
    /\ result = FALSE

\* the state after SCM*Manager.__init__ and the parsing of the arguments
Init ==
    /\ mgr \in {"address", "rule"}
    /\ client \in {None, Scm}
    /\ validation_mode \in (IF mgr = "address" THEN BOOLEAN ELSE {FALSE})
    /\ rulebase \in (IF mgr = "rule" THEN {"pre", "staging"} ELSE {"pre"})
    /\ commit_changes \in BOOLEAN
    /\ batch \in Batches
    /\ remote \in InitialRemotes
    /\ run = "first"
    /\ RunLocalsInit
    /\ calls = <<>>
    /\ applied = {}
    /\ OuterIdle

inputs == <<mgr, client, validation_mode, rulebase, commit_changes, batch>>

(***************************************************************************)
(* SCMAddressManager                                                       *)
(***************************************************************************)

\* apply_addresses_from_file up to the call of _process_addresses
AddrBegin ==
    /\ pc = "start" /\ mgr = "address"
    /\ IF batch = <<>>
       THEN result' = FALSE /\ pc' = "done"
       ELSE IF validation_mode
       THEN result' = TRUE /\ pc' = "done"
       ELSE result' = result /\ pc' = "group"
    /\ UNCHANGED <<inputs, outer, remote, run, groups, affected_folders, success, gi, ri,
                   existing_map, ret, commit_result, calls, applied>>

\* _process_addresses: the grouping loop
AddrGroup ==
    /\ pc = "group" /\ mgr = "address"
    /\ LET g == GroupAddresses(batch, 1,
                   [aborted |-> FALSE, groups |-> <<>>, affected |-> {}])
       IN  /\ groups' = g.groups
           /\ affected_folders' = g.affected
           /\ IF g.aborted
              THEN /\ ret' = [returned |-> TRUE, success |-> FALSE, affected_folders |-> {}]
                   /\ pc' = "ret"
                   /\ gi' = gi
              ELSE IF Len(g.groups) = 0
              THEN /\ ret' = [returned |-> TRUE, success |-> TRUE,
                              affected_folders |-> g.affected]
                   /\ pc' = "ret"
                   /\ gi' = gi
              ELSE /\ ret' = ret
                   /\ pc' = "list"
                   /\ gi' = 1
    /\ UNCHANGED <<inputs, outer, remote, run, success, ri, existing_map, commit_result,
                   result, calls, applied>>

\* list_addresses(container, container_type, exact_match=True) and the lookup map
AddrList(raises) ==
    /\ pc = "list" /\ mgr = "address"
    /\ LET key == groups[gi].key
       IN  IF client = None
           THEN /\ existing_map' = NameMap({})
                /\ UNCHANGED calls
           ELSE \E raised \in raises :
                   LET listed == IF raised THEN {} ELSE GwListing(key)
                   IN  /\ existing_map' = NameMap(listed)
                       /\ calls' = Append(calls, ListCall(key, listed, ~raised))
    /\ ri' = 1
    /\ pc' = "apply"
    /\ UNCHANGED <<inputs, outer, remote, run, groups, affected_folders, success, gi, ret,
                   commit_result, result, applied>>

\* _apply_single_address_with_lookup with update_address / create_address, then
\* the loop of _process_addresses: a failed record returns (False, set())
AddrApply(raises) ==
    /\ pc = "apply" /\ mgr = "address"
    /\ LET key == groups[gi].key
           idx == groups[gi].recs[ri]
           address == batch[idx]
       IN  \E raised \in raises :
           LET exists == InLookup(address.name, existing_map)
               id == IF exists THEN existing_map[address.name].id ELSE 0
               fails == IF exists THEN GwUpdateFails(id, raised)
                        ELSE GwCreateFails(address, key, raised)
               ok == client # None /\ ~fails
           IN  /\ IF client = None
                  THEN UNCHANGED <<calls, remote>>
                  ELSE IF exists
                  THEN /\ calls' = Append(calls, UpdateCall(key, idx, address.name, id, ~fails))
                       /\ remote' = remote
                  ELSE /\ calls' = Append(calls,
                              CreateCall(key, idx, address.name,
                                         IF fails THEN 0 ELSE FreshId, ~fails))
                       /\ remote' = IF fails THEN remote
                                    ELSE remote \cup {Obj(FreshId, address.name, key[1], key[2])}
               /\ applied' = applied \cup {<<run, idx>>}
               /\ IF ~ok
                  THEN /\ ret' = [returned |-> TRUE, success |-> FALSE,
                                  affected_folders |-> {}]
                       /\ pc' = "ret"
                       /\ UNCHANGED <<gi, ri>>
                  ELSE IF ri < Len(groups[gi].recs)
                  THEN /\ ri' = ri + 1
                       /\ UNCHANGED <<gi, ret, pc>>
                  ELSE IF gi < Len(groups)
                  THEN /\ gi' = gi + 1
                       /\ pc' = "list"
                       /\ UNCHANGED <<ri, ret>>
                  ELSE /\ ret' = [returned |-> TRUE, success |-> TRUE,
                                  affected_folders |-> affected_folders]
                       /\ pc' = "ret"
                       /\ UNCHANGED <<gi, ri>>
    /\ UNCHANGED <<inputs, outer, run, groups, affected_folders, success, existing_map,
                   commit_result, result>>

\* apply_addresses_from_file after _process_addresses, with _commit_changes
AddrFinish(raises) ==
    /\ pc = "ret" /\ mgr = "address"
    /\ IF ~ret.success
       THEN /\ result' = FALSE
            /\ UNCHANGED <<commit_result, calls>>
       ELSE IF commit_changes /\ ret.affected_folders # {}
       THEN /\ Commit(AddrCommitFolders(ret.affected_folders), raises)
            /\ result' = AddrCommitJudged(commit_result')
       ELSE /\ result' = TRUE
            /\ UNCHANGED <<commit_result, calls>>
    /\ pc' = "done"
    /\ UNCHANGED <<inputs, outer, remote, run, groups, affected_folders, success, gi, ri,
                   existing_map, ret, applied>>

(***************************************************************************)
(* SCMSecurityRuleManager                                                  *)
(***************************************************************************)

\* apply_rules_from_file up to the call of _apply_rules
RuleBegin ==
    /\ pc = "start" /\ mgr = "rule"
    /\ IF batch = <<>>
       THEN result' = FALSE /\ pc' = "done"
       ELSE IF client = None
       THEN result' = FALSE /\ pc' = "done"
       ELSE result' = result /\ pc' = "group"
    /\ UNCHANGED <<inputs, outer, remote, run, groups, affected_folders, success, gi, ri,
                   existing_map, ret, commit_result, calls, applied>>

\* _apply_rules: the grouping loop
RuleGroup ==
    /\ pc = "group" /\ mgr = "rule"
    /\ LET g == GroupRules(batch, 1,
                   [success |-> TRUE, groups |-> <<>>, affected |-> {}])
       IN  /\ groups' = g.groups
           /\ affected_folders' = g.affected
           /\ success' = g.success
           /\ IF Len(g.groups) = 0
              THEN /\ ret' = [returned |-> TRUE, success |-> g.success,
                              affected_folders |-> g.affected]
                   /\ pc' = "ret"
                   /\ gi' = gi
              ELSE /\ ret' = ret
                   /\ pc' = "list"
                   /\ gi' = 1
    /\ UNCHANGED <<inputs, outer, remote, run, ri, existing_map, commit_result, result,
                   calls, applied>>

\* list_rules(container, container_type, rulebase, exact_match=True) and the lookup map
RuleList(raises) ==
    /\ pc = "list" /\ mgr = "rule"
    /\ LET key == groups[gi].key
       IN  IF client = None \/ ~RulebaseValid(rulebase)
           THEN /\ existing_map' = NameMap({})
                /\ UNCHANGED calls
           ELSE \E raised \in raises :
                   LET listed == IF raised THEN {} ELSE GwListing(key)
                   IN  /\ existing_map' = NameMap(listed)
                       /\ calls' = Append(calls, ListCall(key, listed, ~raised))
    /\ ri' = 1
    /\ pc' = "apply"
    /\ UNCHANGED <<inputs, outer, remote, run, groups, affected_folders, success, gi, ret,
                   commit_result, result, applied>>

\* _apply_single_rule_with_lookup with update_rule_by_id / create_rule, then the
\* loop of _apply_rules: a failed rule sets success = False and the loop goes on
RuleApply(raises) ==
    /\ pc = "apply" /\ mgr = "rule"
    /\ LET key == groups[gi].key
           idx == groups[gi].recs[ri]
           rule == batch[idx]
       IN  \E raised \in raises :
           LET exists == InLookup(rule.name, existing_map)
               id == IF exists THEN existing_map[rule.name].id ELSE 0
               nocall == client = None \/ ~RulebaseValid(rulebase)
               fails == IF exists THEN GwUpdateFails(id, raised)
                        ELSE GwCreateFails(rule, key, raised)
               ok == ~nocall /\ ~fails
               now == success /\ ok
           IN  /\ IF nocall
                  THEN UNCHANGED <<calls, remote>>
                  ELSE IF exists
                  THEN /\ calls' = Append(calls, UpdateCall(key, idx, rule.name, id, ~fails))
                       /\ remote' = remote
                  ELSE /\ calls' = Append(calls,
                              CreateCall(key, idx, rule.name,
                                         IF fails THEN 0 ELSE FreshId, ~fails))
                       /\ remote' = IF fails THEN remote
                                    ELSE remote \cup {Obj(FreshId, rule.name, key[1], key[2])}
               /\ applied' = applied \cup {<<run, idx>>}
               /\ success' = now
               /\ IF ri < Len(groups[gi].recs)
                  THEN /\ ri' = ri + 1
                       /\ UNCHANGED <<gi, ret, pc>>
                  ELSE IF gi < Len(groups)
                  THEN /\ gi' = gi + 1
                       /\ pc' = "list"
                       /\ UNCHANGED <<ri, ret>>
                  ELSE /\ ret' = [returned |-> TRUE, success |-> now,
                                  affected_folders |-> affected_folders]
                       /\ pc' = "ret"
                       /\ UNCHANGED <<gi, ri>>
    /\ UNCHANGED <<inputs, outer, run, groups, affected_folders, existing_map,
                   commit_result, result>>

\* a plausible slip: the reconciliation's success is not asked for
RuleCommitsIgnoringSuccess(r) == commit_changes /\ r.affected_folders # {}

\* a plausible slip: the touched folders are not asked for
RuleCommitsWithoutFolders(r) == commit_changes /\ r.success

\* if commit_changes and affected_folders and success
RuleCommits(r) == commit_changes /\ r.affected_folders # {} /\ r.success

\* apply_rules_from_file after _apply_rules: the commit and the returned flag
RuleFinish(raises) ==
    /\ pc = "ret" /\ mgr = "rule"
    /\ IF RuleCommits(ret)
       THEN /\ Commit(RuleCommitFolders(ret.affected_folders), raises)
            /\ result' = RuleCommitJudged(commit_result')
       ELSE /\ result' = ret.success
            /\ UNCHANGED <<commit_result, calls>>
    /\ pc' = "done"
    /\ UNCHANGED <<inputs, outer, remote, run, groups, affected_folders, success, gi, ri,
                   existing_map, ret, applied>>

(***************************************************************************)
(* The single operations of the managers                                   *)
(***************************************************************************)

\* the local state of apply_*_from_file that a single operation never touches
reconciler == <<groups, affected_folders, success, gi, ri, existing_map, ret, result,
                applied>>

ContainerTypes == {"folder", "snippet", "device"}

\* return values: Optional[ResponseModel], List[ResponseModel], bool, Dict, or
\* an exception that leaves the operation
RetFound(objs) ==
    [kind |-> IF objs = {} THEN "none" ELSE "object", objs |-> objs, flag |-> FALSE,
     dict |-> NoCommit, exc |-> "none"]
RetNone == RetFound({})
RetList(objs) ==
    [kind |-> "list", objs |-> objs, flag |-> FALSE, dict |-> NoCommit, exc |-> "none"]
RetBool(b) ==
    [kind |-> "bool", objs |-> {}, flag |-> b, dict |-> NoCommit, exc |-> "none"]
RetDict(d) ==
    [kind |-> "dict", objs |-> {}, flag |-> FALSE, dict |-> d, exc |-> "none"]
RetRaise(e) ==
    [kind |-> "raise", objs |-> {}, flag |-> FALSE, dict |-> NoCommit, exc |-> e]

\* a plausible slip: the container keyword is not passed to fetch
GwFetchAnyContainer(name, key) == { o \in remote : o.name = name }

\* client.<kind>.fetch(name=name, <container_type>=container): the object of
\* that name in the container; raises when there is none
GwFetch(name, key) == { o \in GwListing(key) : o.name = name }

FetchCall(key, name, ok) == Call("fetch", key, 0, name, 0, <<>>, {}, FALSE, ok)
DeleteCall(key, name, id, ok) == Call("delete", key, 0, name, id, <<>>, {}, FALSE, ok)

\* what the rule manager checks inside its try block before it calls the
\* gateway: the container type (fetch and list only) and _get_rulebase_enum
RulePrecheckFails(ctype) ==
    mgr = "rule" /\ (ctype \notin ContainerTypes \/ ~RulebaseValid(rulebase))

\* the operation returns r, having issued the calls `issued` and left the
\* remote system as rem
OpReturns(r, issued, rem) ==
    /\ op_ret' = r
    /\ calls' = calls \o issued
    /\ remote' = rem
    /\ pc' = "done"

\* create_address(address) / create_rule(rule, rulebase)
OpCreate(raises) ==
    /\ pc = "op" /\ request.op = "create"
    /\ LET r == request.rec
           key == get_container_info(r)
       IN  IF client = None
           THEN OpReturns(RetNone, <<>>, remote)
           ELSE IF mgr = "rule" /\ ~RulebaseValid(rulebase)
           THEN OpReturns(RetNone, <<>>, remote)
           ELSE \E raised \in raises :
                   LET fails == key = NoContainer \/ GwCreateFails(r, key, raised)
                       o == Obj(FreshId, r.name, key[1], key[2])
                   IN  IF fails
                       THEN OpReturns(RetNone,
                                <<CreateCall(key, 0, r.name, 0, FALSE)>>, remote)
                       ELSE OpReturns(RetFound({o}),
                                <<CreateCall(key, 0, r.name, o.id, TRUE)>>,
                                remote \cup {o})
    /\ UNCHANGED <<inputs, run, reconciler, commit_result, file, request, loaded,
                   exit_code>>

\* update_address(address: AddressUpdateModel), the model carrying the id
OpUpdateAddress(raises) ==
    /\ pc = "op" /\ request.op = "update" /\ mgr = "address"
    /\ LET r == request.rec
           id == request.id
           key == get_container_info(r)
       IN  IF client = None
           THEN OpReturns(RetNone, <<>>, remote)
           ELSE \E raised \in raises :
                   IF GwUpdateFails(id, raised)
                   THEN OpReturns(RetNone, <<UpdateCall(key, 0, r.name, id, FALSE)>>,
                                  remote)
                   ELSE OpReturns(RetFound({ o \in remote : o.id = id }),
                                  <<UpdateCall(key, 0, r.name, id, TRUE)>>, remote)
    /\ UNCHANGED <<inputs, run, reconciler, commit_result, file, request, loaded,
                   exit_code>>

\* get_address_by_name / get_rule_by_name: the object found (or none) and the
\* gateway calls issued for it
GetByName(name, key, raised) ==
    IF client = None \/ RulePrecheckFails(key[2])
    THEN [objs |-> {}, issued |-> <<>>]
    ELSE LET found == IF raised THEN {} ELSE GwFetch(name, key)
         IN  [objs |-> found, issued |-> <<FetchCall(key, name, found # {})>>]

\* a plausible slip: the update model's id is never assigned
UpdateModelIdUnset(existing) == 0

\* update_model.id = existing.id
UpdateModelId(existing) == existing.id

\* update_rule(rule, rulebase): the container from the rule's fields, a fetch
\* by name for the id, then the update
OpUpdateRule(raises) ==
    /\ pc = "op" /\ request.op = "update" /\ mgr = "rule"
    /\ LET r == request.rec
           key == get_container_info(r)
       IN  IF client = None \/ key = NoContainer
           THEN OpReturns(RetNone, <<>>, remote)
           ELSE \E raised1 \in raises, raised2 \in raises :
                   LET got == GetByName(r.name, key, raised1)
                       id == UpdateModelId(CHOOSE o \in got.objs : TRUE)
                   IN  IF got.objs = {}
                       THEN OpReturns(RetNone, got.issued, remote)
                       ELSE IF GwUpdateFails(id, raised2)
                       THEN OpReturns(RetNone,
                                got.issued \o <<UpdateCall(key, 0, r.name, id, FALSE)>>,
                                remote)
                       ELSE OpReturns(RetFound(got.objs),
                                got.issued \o <<UpdateCall(key, 0, r.name, id, TRUE)>>,
                                remote)
    /\ UNCHANGED <<inputs, run, reconciler, commit_result, file, request, loaded,
                   exit_code>>

\* a plausible slip: only the validation error is handled
UpdateByIdCatchesValidationOnly(exc) == exc = "ValidationError"

\* update_rule_by_id: except ValidationError, then except Exception
UpdateByIdCatches(exc) == exc \in {"ValidationError", "AttributeError", "ValueError",
                                   "GatewayError"}

\* update_rule_by_id(rule_data, rulebase): no test of self.client; the
\* attribute access on None raises AttributeError inside the try block
OpUpdateRuleById(raises) ==
    /\ pc = "op" /\ request.op = "update_by_id" /\ mgr = "rule"
    /\ LET r == request.rec
           id == request.id
           key == get_container_info(r)
           early == IF client = None THEN "AttributeError"
                    ELSE IF ~RulebaseValid(rulebase) THEN "ValueError"
                    ELSE "none"
           Handled(exc, issued) ==
               IF UpdateByIdCatches(exc)
               THEN OpReturns(RetNone, issued, remote)
               ELSE OpReturns(RetRaise(exc), issued, remote)
       IN  IF early # "none"
           THEN Handled(early, <<>>)
           ELSE \E raised \in raises :
                   IF GwUpdateFails(id, raised)
                   THEN Handled("GatewayError",
                                <<UpdateCall(key, 0, r.name, id, FALSE)>>)
                   ELSE OpReturns(RetFound({ o \in remote : o.id = id }),
                                  <<UpdateCall(key, 0, r.name, id, TRUE)>>, remote)
    /\ UNCHANGED <<inputs, run, reconciler, commit_result, file, request, loaded,
                   exit_code>>

\* get_address_by_name(name, container, container_type) /
\* get_rule_by_name(name, container, container_type, rulebase)
OpFetch(raises) ==
    /\ pc = "op" /\ request.op = "fetch"
    /\ \E raised \in raises :
          LET got == GetByName(request.name, <<request.container, request.ctype>>, raised)
          IN  OpReturns(RetFound(got.objs), got.issued, remote)
    /\ UNCHANGED <<inputs, run, reconciler, commit_result, file, request, loaded,
                   exit_code>>

\* list_addresses(container, container_type) / list_rules(container,
\* container_type, rulebase): an exception of the call gives the empty list
OpList(raises) ==
    /\ pc = "op" /\ request.op = "list"
    /\ LET key == <<request.container, request.ctype>>
       IN  IF client = None \/ RulePrecheckFails(key[2])
           THEN OpReturns(RetList({}), <<>>, remote)
           ELSE \E raised \in raises :
                   LET listed == IF raised THEN {} ELSE GwListing(key)
                   IN  OpReturns(RetList(listed), <<ListCall(key, listed, ~raised)>>,
                                 remote)
    /\ UNCHANGED <<inputs, run, reconciler, commit_result, file, request, loaded,
                   exit_code>>

\* delete_address(name, container, container_type) / delete_rule(name,
\* container, container_type, rulebase): fetch by name, then delete by id
OpDelete(raises) ==
    /\ pc = "op" /\ request.op = "delete"
    /\ LET key == <<request.container, request.ctype>>
       IN  IF client = None
           THEN OpReturns(RetBool(FALSE), <<>>, remote)
           ELSE \E raised1 \in raises, raised2 \in raises :
                   LET got == GetByName(request.name, key, raised1)
                       o == CHOOSE x \in got.objs : TRUE
                   IN  IF got.objs = {}
                       THEN OpReturns(RetBool(FALSE), got.issued, remote)
                       ELSE IF raised2
                       THEN OpReturns(RetBool(FALSE),
                                got.issued \o <<DeleteCall(key, o.name, o.id, FALSE)>>,
                                remote)
                       ELSE OpReturns(RetBool(TRUE),
                                got.issued \o <<DeleteCall(key, o.name, o.id, TRUE)>>,
                                remote \ {o})
    /\ UNCHANGED <<inputs, run, reconciler, commit_result, file, request, loaded,
                   exit_code>>

\* commit(folders, description, sync=True) called on its own
OpCommit(raises) ==
    /\ pc = "op" /\ request.op = "commit"
    /\ Commit({request.folders}, raises)
    /\ op_ret' = RetDict(commit_result')
    /\ pc' = "done"
    /\ UNCHANGED <<inputs, remote, run, reconciler, file, request, loaded, exit_code>>

\* the arguments the single operations are invoked with
OpNames == {"web1", "web2"}
OpContainers == {"DMZ", "LAN"}
OpContainerTypes == {"folder", "snippet", "zone"}
OpIds == {1, 2, 7}
OpFolderLists == {<<>>, <<"DMZ">>, <<"DMZ", "LAN">>}
NoRec == NoRequest.rec

Req(op, rec, id, name, container, ctype, folders) ==
    [op |-> op, rec |-> rec, id |-> id, name |-> name, container |-> container,
     ctype |-> ctype, folders |-> folders, dry_run |-> FALSE, commit |-> FALSE,
     creds |-> TRUE]

OpRequests(m) ==
    { Req("apply", NoRec, 0, "", "", "", <<>>) }
    \cup { Req("create", r, 0, "", "", "", <<>>) : r \in RecordPool }
    \cup { Req("update", r, i, "", "", "", <<>>) :
             r \in RecordPool, i \in (IF m = "address" THEN OpIds ELSE {0}) }
    \cup (IF m = "rule"
          THEN { Req("update_by_id", r, i, "", "", "", <<>>) :
                   r \in RecordPool, i \in OpIds }
          ELSE {})
    \cup { Req(op, NoRec, 0, n, c, t, <<>>) :
             op \in {"fetch", "delete"}, n \in OpNames, c \in OpContainers,
             t \in OpContainerTypes }
    \cup { Req("list", NoRec, 0, "", c, t, <<>>) :
             c \in OpContainers, t \in OpContainerTypes }
    \cup { Req("commit", NoRec, 0, "", "", "", f) : f \in OpFolderLists }

\* a manager after __init__, about to run one of its operations
InitOps ==
    /\ mgr \in {"address", "rule"}
    /\ client \in {None, Scm}
    /\ validation_mode \in (IF mgr = "address" THEN BOOLEAN ELSE {FALSE})
    /\ rulebase \in (IF mgr = "rule" THEN {"pre", "staging"} ELSE {"pre"})
    /\ request \in OpRequests(mgr)
    /\ commit_changes \in (IF request.op = "apply" THEN BOOLEAN ELSE {FALSE})
    /\ batch \in (IF request.op = "apply" THEN Batches ELSE {<<>>})
    /\ remote \in InitialRemotes
    /\ run = "first"
    /\ pc = (IF request.op = "apply" THEN "start" ELSE "op")
    /\ groups = <<>>
    /\ affected_folders = {}
    /\ success = TRUE
    /\ gi = 0
    /\ ri = 0
    /\ existing_map = <<>>
    /\ ret = NoRet
    /\ commit_result = NoCommit
    /\ result = FALSE
    /\ calls = <<>>
    /\ applied = {}
    /\ file = NoFile
    /\ loaded = NotLoaded
    /\ op_ret = NoOpRet
    /\ exit_code = NoExit

(***************************************************************************)
(* Record Validator: load_addresses_from_file and load_rules_from_file     *)
(***************************************************************************)

\* longest sequence of records in a configuration file
MaxFileRecords == 2

\* file_path.suffix.lower() for the suffixes used here
Lower(sfx) ==
    CASE sfx = ".YAML" -> ".yaml"
      [] sfx = ".JSON" -> ".json"
      [] OTHER -> sfx

YamlSuffixes == {".yaml", ".yml"}
Suffixes == {".yaml", ".yml", ".json", ".txt", ".YAML"}

\* a mapping of the file and what the SDK model makes of it: the record, or
\* a ValidationError
Raw(v, r) == [valid |-> v, rec |-> r]
RawPool ==
    { Raw(TRUE, Rec("web1", "DMZ", None, None)),
      Raw(TRUE, Rec("web2", None, "DMZ", None)),
      Raw(FALSE, Rec("web1", "LAN", None, None)) }

\* a file: whether it exists, its suffix, the syntax its text is valid in
\* ("json" text is valid YAML too, "garbage" is neither), the shape of the
\* parsed document and the mappings in it
FileOf(e, sfx, syn, shape, items) ==
    [exists |-> e, suffix |-> sfx, syntax |-> syn, shape |-> shape, items |-> items]

Documents ==
    { <<"null", <<>>>>, <<"scalar", <<>>>> }
    \cup { <<"mapping", <<m>>>> : m \in RawPool }
    \cup { <<"sequence", q>> : q \in SeqsUpTo(RawPool, MaxFileRecords) }

Files ==
    { FileOf(FALSE, sfx, "none", "none", <<>>) : sfx \in Suffixes }
    \cup { FileOf(TRUE, sfx, "garbage", "none", <<>>) : sfx \in Suffixes }
    \cup { FileOf(TRUE, sfx, syn, d[1], d[2]) :
             sfx \in Suffixes, syn \in {"yaml", "json"}, d \in Documents }

\* yaml.safe_load reads YAML text and, JSON being a subset of YAML, JSON text;
\* json.load reads JSON text only
Parses(fmt, f) ==
    IF fmt = "yaml" THEN f.syntax \in {"yaml", "json"} ELSE f.syntax = "json"

\* Python truthiness of the parsed document: None and [] are falsy
DataTruthy(f) ==
    \/ f.shape = "scalar"
    \/ f.shape \in {"mapping", "sequence"} /\ f.items # <<>>

AllValid(items) == \A i \in 1..Len(items) : items[i].valid
Validated(items) == [i \in 1..Len(items) |-> items[i].rec]

\* what a loader did: returned a list, left by sys.exit(1), or raised; whether
\* it called logger.error; the parser it ran; the error it met
LoadResult(how, records, logged, fmt, err) ==
    [how |-> how, records |-> records, logged_error |-> logged, parsed_as |-> fmt,
     error |-> err]

\* SCMAddressManager.load_addresses_from_file
load_addresses_from_file(f) ==
    IF ~f.exists
    THEN LoadResult("return", <<>>, TRUE, "none", "not_found")
    ELSE LET sfx == Lower(f.suffix)
             fmt == IF sfx \in YamlSuffixes THEN "yaml"
                    ELSE IF sfx = ".json" THEN "json"
                    ELSE "none"
         IN  IF fmt = "none"
             THEN LoadResult("return", <<>>, TRUE, "none", "unsupported")
             ELSE IF ~Parses(fmt, f)
             THEN LoadResult("return", <<>>, TRUE, fmt, "parse")
             ELSE IF ~DataTruthy(f)
             THEN LoadResult("return", <<>>, TRUE, fmt, "no_data")
             ELSE IF f.shape # "sequence"
             THEN LoadResult("return", <<>>, TRUE, fmt, "not_list")
             ELSE IF ~AllValid(f.items)
             THEN LoadResult("exit", <<>>, TRUE, fmt, "ValidationError")
             ELSE LoadResult("return", Validated(f.items), FALSE, fmt, "none")

\* a plausible slip: the clause for the missing file placed after the clause
\* for the parse errors
RulesExceptParseFirst(exc, yaml_bound) ==
    IF ~yaml_bound THEN "UnboundLocalError"
    ELSE IF exc \in {"JSONDecodeError", "YAMLError", "FileNotFoundError",
                     "ValidationError"}
    THEN "caught"
    ELSE exc

\* the except clauses of load_rules_from_file, tried in order: "caught", or
\* the exception that leaves the loader.  The second clause names yaml.YAMLError
\* and yaml is a local name, bound only by the import in the YAML branch.
RulesExcept(exc, yaml_bound) ==
    IF exc = "FileNotFoundError" THEN "caught"
    ELSE IF ~yaml_bound THEN "UnboundLocalError"
    ELSE IF exc \in {"JSONDecodeError", "YAMLError"} THEN "caught"
    ELSE IF exc = "ValidationError" THEN "caught"
    ELSE exc

\* SCMSecurityRuleManager.load_rules_from_file
load_rules_from_file(f) ==
    LET fmt == IF Lower(f.suffix) \in YamlSuffixes THEN "yaml" ELSE "json"
        yaml_bound == f.exists /\ fmt = "yaml"
        parsed == IF f.exists THEN fmt ELSE "none"
        data == IF f.shape = "mapping" THEN <<f.items[1]>> ELSE f.items
        exc == IF ~f.exists THEN "FileNotFoundError"
               ELSE IF ~Parses(fmt, f)
               THEN (IF fmt = "yaml" THEN "YAMLError" ELSE "JSONDecodeError")
               ELSE IF f.shape \in {"null", "scalar"} THEN "TypeError"
               ELSE IF ~AllValid(data) THEN "ValidationError"
               ELSE "none"
        handled == RulesExcept(exc, yaml_bound)
    IN  IF exc = "none"
        THEN LoadResult("return", Validated(data), FALSE, parsed, "none")
        ELSE IF handled = "caught"
        THEN LoadResult("return", <<>>, TRUE, parsed, exc)
        ELSE LoadResult("raise", <<>>, FALSE, parsed, handled)

\* the loader of the manager at hand
LoadFile(m, f) ==
    IF m = "address" THEN load_addresses_from_file(f) ELSE load_rules_from_file(f)

\* manager.load_addresses_from_file(file_path)
LoadAddresses ==
    /\ pc = "load" /\ mgr = "address"
    /\ loaded' = load_addresses_from_file(file)
    /\ pc' = "loaded"
    /\ UNCHANGED <<inputs, remote, run, reconciler, commit_result, calls, file,
                   request, op_ret, exit_code>>

\* manager.load_rules_from_file(file_path)
LoadRules ==
    /\ pc = "load" /\ mgr = "rule"
    /\ loaded' = load_rules_from_file(file)
    /\ pc' = "loaded"
    /\ UNCHANGED <<inputs, remote, run, reconciler, commit_result, calls, file,
                   request, op_ret, exit_code>>

\* a manager about to load a file
InitLoad ==
    /\ mgr \in {"address", "rule"}
    /\ client = Scm
    /\ validation_mode = FALSE
    /\ rulebase = "pre"
    /\ request = Req("load", NoRec, 0, "", "", "", <<>>)
    /\ commit_changes = FALSE
    /\ batch = <<>>
    /\ remote = {}
    /\ run = "first"
    /\ pc = "load"
    /\ groups = <<>>
    /\ affected_folders = {}
    /\ success = TRUE
    /\ gi = 0
    /\ ri = 0
    /\ existing_map = <<>>
    /\ ret = NoRet
    /\ commit_result = NoCommit
    /\ result = FALSE
    /\ calls = <<>>
    /\ applied = {}
    /\ file \in Files
    /\ loaded = NotLoaded
    /\ op_ret = NoOpRet
    /\ exit_code = NoExit

(***************************************************************************)
(* Command line interface (cli.py)                                         *)
(***************************************************************************)

\* exit code of a usage error of the argument parser
UsageError == 2

\* the top-level names registered on app: apply, list, delete
Registered == {"apply", "list", "delete"}

\* SCMAddressManager() / SCMSecurityRuleManager() leave by sys.exit(1) when the
\* credentials are missing; the address manager skips them in validation mode
ConstructionExits ==
    IF mgr = "address" THEN ~validation_mode /\ ~request.creds ELSE ~request.creds

\* self.client after __init__
ConstructedClient == IF mgr = "address" /\ validation_mode THEN None ELSE Scm

\* the argument parser and the first statement of the command function
CliDispatch ==
    /\ pc = "cli"
    /\ IF request.op \notin Registered
       THEN /\ exit_code' = UsageError
            /\ pc' = "exited"
            /\ client' = client
       ELSE IF request.op = "apply" /\ ~file.exists
       THEN /\ exit_code' = UsageError
            /\ pc' = "exited"
            /\ client' = client
       ELSE IF ConstructionExits
       THEN /\ exit_code' = 1
            /\ pc' = "exited"
            /\ client' = client
       ELSE /\ exit_code' = exit_code
            /\ pc' = (IF request.op = "apply" THEN "load" ELSE "op")
            /\ client' = ConstructedClient
    /\ UNCHANGED <<mgr, validation_mode, rulebase, commit_changes, batch, remote, run,
                   reconciler, commit_result, calls, file, request, loaded, op_ret>>

\* a plausible slip: the empty list is not tested
CliDryRunExitCodeAlwaysZero(records) == 0

\* apply --dry-run: if not rules: sys.exit(1), else return
CliDryRunExitCode(records) == IF records = <<>> THEN 1 ELSE 0

\* apply_security_rule / apply_address with --dry-run, after the loader: a
\* loader that left by sys.exit(1) or raised ends the process with code 1
CliDryRun ==
    /\ pc = "loaded" /\ request.op = "apply" /\ request.dry_run
    /\ exit_code' = (IF loaded.how = "return" THEN CliDryRunExitCode(loaded.records)
                     ELSE 1)
    /\ pc' = "exited"
    /\ UNCHANGED <<inputs, remote, run, reconciler, commit_result, calls, file,
                   request, loaded, op_ret>>

\* apply_*_from_file, first statement: the records of the loader; a loader
\* that left by sys.exit(1) or raised ends the process with code 1
ApplyFromFile ==
    /\ pc = "loaded" /\ request.op = "apply" /\ ~request.dry_run
    /\ IF loaded.how = "return"
       THEN /\ batch' = loaded.records
            /\ pc' = "start"
            /\ exit_code' = exit_code
       ELSE /\ batch' = batch
            /\ pc' = "exited"
            /\ exit_code' = 1
    /\ UNCHANGED <<mgr, client, validation_mode, rulebase, commit_changes, remote, run,
                   reconciler, commit_result, calls, file, request, loaded, op_ret>>

\* a plausible slip: the failure branch does not call sys.exit(1)
CliExitCodeAlwaysZero(ok) == 0

\* if success: ... else: sys.exit(1)
CliExitCode(ok) == IF ok THEN 0 ELSE 1

\* apply_security_rule / apply_address after apply_*_from_file returned
CliApplyExit ==
    /\ pc = "done" /\ request.op = "apply"
    /\ exit_code' = CliExitCode(result)
    /\ pc' = "exited"
    /\ UNCHANGED <<inputs, remote, run, reconciler, commit_result, calls, file,
                   request, loaded, op_ret>>

\* delete commands: result.get("status") == "SUCCESS" or result.get("job_id")
CliCommitJudged(res) == res.status = "SUCCESS" \/ Truthy(res.job_id)

\* delete --commit: delete_security_rule commits whenever asked, delete_address
\* only for a folder
CliDeleteCommits ==
    request.commit /\ (mgr = "rule" \/ request.ctype = "folder")

\* delete_security_rule / delete_address after delete_rule / delete_address
\* returned: the commit of the container and the exit code
CliDeleteExit(raises) ==
    /\ pc = "done" /\ request.op = "delete"
    /\ IF op_ret.flag /\ CliDeleteCommits
       THEN /\ Commit({<<request.container>>}, raises)
            /\ exit_code' = CliExitCode(CliCommitJudged(commit_result'))
       ELSE /\ exit_code' = CliExitCode(op_ret.flag)
            /\ UNCHANGED <<commit_result, calls>>
    /\ pc' = "exited"
    /\ UNCHANGED <<inputs, remote, run, reconciler, file, request, loaded, op_ret>>

CliReq(op, name, container, ctype, dry, commit, creds) ==
    [Req(op, NoRec, 0, name, container, ctype, <<>>)
        EXCEPT !.dry_run = dry, !.commit = commit, !.creds = creds]

\* the command lines: apply <file> [--commit] [--dry-run], delete <name>
\* <container> [--type] [--commit], and commit <container>
CliRequests ==
    { CliReq("apply", "", "", "", d, c, k) : d \in BOOLEAN, c \in BOOLEAN, k \in BOOLEAN }
    \cup { CliReq("delete", n, co, t, FALSE, c, k) :
             n \in OpNames, co \in OpContainers, t \in OpContainerTypes,
             c \in BOOLEAN, k \in BOOLEAN }
    \cup { CliReq("commit", "", co, "", FALSE, FALSE, k) :
             co \in OpContainers, k \in BOOLEAN }

\* the process started with its command line, before the parser has run
InitCli ==
    /\ mgr \in {"address", "rule"}
    /\ client = None
    /\ validation_mode \in (IF mgr = "address" THEN BOOLEAN ELSE {FALSE})
    /\ rulebase \in (IF mgr = "rule" THEN {"pre", "staging"} ELSE {"pre"})
    /\ request \in CliRequests
    /\ commit_changes = (request.op = "apply" /\ request.commit)
    /\ batch = <<>>
    /\ remote \in InitialRemotes
    /\ run = "first"
    /\ pc = "cli"
    /\ groups = <<>>
    /\ affected_folders = {}
    /\ success = TRUE
    /\ gi = 0
    /\ ri = 0
    /\ existing_map = <<>>
    /\ ret = NoRet
    /\ commit_result = NoCommit
    /\ result = FALSE
    /\ calls = <<>>
    /\ applied = {}
    /\ file \in (IF request.op = "apply" THEN Files ELSE {NoFile})
    /\ loaded = NotLoaded
    /\ op_ret = NoOpRet
    /\ exit_code = NoExit

(***************************************************************************)
(* Specifications                                                          *)
(***************************************************************************)

\* one invocation; every gateway call may raise
Next ==
    \/ AddrBegin
    \/ AddrGroup
    \/ AddrList(BOOLEAN)
    \/ AddrApply(BOOLEAN)
    \/ AddrFinish(BOOLEAN)
    \/ RuleBegin
    \/ RuleGroup
    \/ RuleList(BOOLEAN)
    \/ RuleApply(BOOLEAN)
    \/ RuleFinish(BOOLEAN)

Spec == Init /\ [][Next]_vars

\* the same command invoked again on the remote state the first run left
Rerun ==
    /\ pc = "done" /\ run = "first"
    /\ run' = "second"
    /\ pc' = "start"
    /\ groups' = <<>>
    /\ affected_folders' = {}
    /\ success' = TRUE
    /\ gi' = 0
    /\ ri' = 0
    /\ existing_map' = <<>>
    /\ ret' = NoRet
    /\ commit_result' = NoCommit
    /\ result' = FALSE
    /\ UNCHANGED <<inputs, outer, remote, calls, applied>>

\* two invocations in succession against a gateway with no transport fault:
\* a call raises only for what the remote state itself rejects
InitTwice ==
    /\ Init
    /\ client = Scm
    /\ ~validation_mode
    /\ RulebaseValid(rulebase)

NextTwice ==
    \/ AddrBegin
    \/ AddrGroup
    \/ AddrList({FALSE})
    \/ AddrApply({FALSE})
    \/ AddrFinish({FALSE})
    \/ RuleBegin
    \/ RuleGroup
    \/ RuleList({FALSE})
    \/ RuleApply({FALSE})
    \/ RuleFinish({FALSE})
    \/ Rerun

SpecTwice == InitTwice /\ [][NextTwice]_vars

\* what a reconciler returned, kept in the log of the run
ReturnMark(r) ==
    Call("return", <<>>, 0, None, 0,
         CHOOSE q \in ListsOf(r.affected_folders) : TRUE, {}, FALSE, r.success)

\* the remote system without the objects this run has created
RemoteBefore ==
    { o \in remote :
        ~ \E k \in 1..Len(calls) :
            calls[k].op = "create" /\ calls[k].ok /\ calls[k].id = o.id }

\* the batch the address manager was given is given to the rule manager,
\* against a remote system in the state the address manager had found
ThenRuleManager ==
    /\ pc = "done" /\ run = "first" /\ mgr = "address"
    /\ mgr' = "rule"
    /\ run' = "second"
    /\ pc' = "start"
    /\ groups' = <<>>
    /\ affected_folders' = {}
    /\ success' = TRUE
    /\ gi' = 0
    /\ ri' = 0
    /\ existing_map' = <<>>
    /\ ret' = NoRet
    /\ commit_result' = NoCommit
    /\ result' = FALSE
    /\ remote' = RemoteBefore
    /\ calls' = Append(calls, ReturnMark(ret))
    /\ UNCHANGED <<client, validation_mode, rulebase, commit_changes, batch, outer,
                   applied>>

\* both managers on one batch, against a gateway with no transport fault
InitBoth ==
    /\ InitTwice
    /\ mgr = "address"

NextBoth ==
    \/ AddrBegin
    \/ AddrGroup
    \/ AddrList({FALSE})
    \/ AddrApply({FALSE})
    \/ AddrFinish({FALSE})
    \/ ThenRuleManager
    \/ RuleBegin
    \/ RuleGroup
    \/ RuleList({FALSE})
    \/ RuleApply({FALSE})
    \/ RuleFinish({FALSE})

SpecBoth == InitBoth /\ [][NextBoth]_vars

\* one operation of a manager, apply_*_from_file or a single operation
NextOps ==
    \/ AddrBegin
    \/ AddrGroup
    \/ AddrList(BOOLEAN)
    \/ AddrApply(BOOLEAN)
    \/ AddrFinish(BOOLEAN)
    \/ RuleBegin
    \/ RuleGroup
    \/ RuleList(BOOLEAN)
    \/ RuleApply(BOOLEAN)
    \/ RuleFinish(BOOLEAN)
    \/ OpCreate(BOOLEAN)
    \/ OpUpdateAddress(BOOLEAN)
    \/ OpUpdateRule(BOOLEAN)
    \/ OpUpdateRuleById(BOOLEAN)
    \/ OpFetch(BOOLEAN)
    \/ OpList(BOOLEAN)
    \/ OpDelete(BOOLEAN)
    \/ OpCommit(BOOLEAN)

SpecOps == InitOps /\ [][NextOps]_vars

\* one call of a loader
NextLoad ==
    \/ LoadAddresses
    \/ LoadRules

SpecLoad == InitLoad /\ [][NextLoad]_vars

\* one invocation of the command line program
NextCli ==
    \/ CliDispatch
    \/ LoadAddresses
    \/ LoadRules
    \/ CliDryRun
    \/ ApplyFromFile
    \/ AddrBegin
    \/ AddrGroup
    \/ AddrList(BOOLEAN)
    \/ AddrApply(BOOLEAN)
    \/ AddrFinish(BOOLEAN)
    \/ RuleBegin
    \/ RuleGroup
    \/ RuleList(BOOLEAN)
    \/ RuleApply(BOOLEAN)
    \/ RuleFinish(BOOLEAN)
    \/ CliApplyExit
    \/ OpDelete(BOOLEAN)
    \/ CliDeleteExit(BOOLEAN)

SpecCli == InitCli /\ [][NextCli]_vars

(***************************************************************************)
(* Vocabulary of the properties                                            *)
(***************************************************************************)

\* the gateway can be called at all: a client handle, and for rules a rulebase
\* that converts
GatewayUsable == client # None /\ (mgr = "rule" => RulebaseValid(rulebase))

Routable(r) == get_container_info(r) # NoContainer

AllRoutable == \A i \in 1..Len(batch) : Routable(batch[i])

\* the calls of kind op issued in the current run, by their position in the log
CallsOf(ops) == { k \in 1..Len(calls) : calls[k].run = run /\ calls[k].op \in ops }

ApplyCallsFor(idx) == { k \in CallsOf({"create", "update"}) : calls[k].idx = idx }

DistinctPairs == { get_container_info(batch[i]) : i \in { j \in 1..Len(batch) : Routable(batch[j]) } }

(***************************************************************************)
(* C1  Create-vs-update decision                                           *)
(***************************************************************************)

\* C1: with a usable gateway, every record the reconciler has applied got
\* exactly one gateway call: an update carrying the id of the listed object of
\* the same name when the listing of its container holds one, a create otherwise.
C1_CreateVsUpdate ==
    GatewayUsable =>
        \A idx \in 1..Len(batch) :
            <<run, idx>> \in applied =>
                LET key == get_container_info(batch[idx])
                    lists == { k \in CallsOf({"list"}) : calls[k].key = key }
                    mine == ApplyCallsFor(idx)
                IN  /\ Cardinality(lists) = 1
                    /\ Cardinality(mine) = 1
                    /\ \A l \in lists, k \in mine :
                        LET hit == { o \in calls[l].listed : o.name = batch[idx].name }
                        IN  /\ l < k
                            /\ IF hit # {}
                               THEN calls[k].op = "update" /\ calls[k].id \in { o.id : o \in hit }
                               ELSE calls[k].op = "create"

\* a finished run that issued an update for a listed name and a create for an unlisted one
C1_Witness ==
    /\ pc = "done" /\ GatewayUsable
    /\ \E k \in CallsOf({"update"}) : calls[k].id = 1 /\ calls[k].name = "web1"
    /\ \E k \in CallsOf({"create"}) : calls[k].name = "web2"

(***************************************************************************)
(* C2  Idempotent apply (under SpecTwice)                                  *)
(***************************************************************************)

\* C2: when a non-empty batch whose records all resolve has been applied twice
\* and no gateway call failed, the second run issued no create and exactly one
\* update per record.
C2_IdempotentApply ==
    ( /\ run = "second" /\ pc = "done"
      /\ batch # <<>> /\ AllRoutable
      /\ \A k \in 1..Len(calls) : calls[k].ok )
    => /\ CallsOf({"create"}) = {}
       /\ Cardinality(CallsOf({"update"})) = Len(batch)

\* a second run of two records, both created by the first run, ends clean
C2_Witness ==
    /\ run = "second" /\ pc = "done"
    /\ Len(batch) = 2 /\ AllRoutable
    /\ \A k \in 1..Len(calls) : calls[k].ok
    /\ Cardinality({ k \in 1..Len(calls) : calls[k].run = "first" /\ calls[k].op = "create" }) = 2
    /\ Cardinality(CallsOf({"update"})) = 2

(***************************************************************************)
(* C3  Per-record failures do not abort the batch                          *)
(***************************************************************************)

\* C3 (as claimed): when the reconciler has returned from a batch whose records
\* all resolve and some create or update failed, every record of the batch got
\* its create or update call and the returned flag is false.
C3_FailureDoesNotAbort ==
    ( /\ ret.returned /\ GatewayUsable /\ AllRoutable
      /\ \E k \in CallsOf({"create", "update"}) : ~calls[k].ok )
    => /\ \A idx \in 1..Len(batch) : ApplyCallsFor(idx) # {}
       /\ ~ret.success

(***************************************************************************)
(* C4  Fail-fast routing                                                   *)
(***************************************************************************)

\* C4 (as claimed): when the reconciler has returned from a batch holding a
\* record with no container, it returned failure and the run issued no
\* gateway call at all.
C4_FailFastRouting ==
    (ret.returned /\ ~AllRoutable)
    => /\ ~ret.success
       /\ CallsOf({"list", "create", "update"}) = {}
       /\ (pc = "done" => ~result)

(***************************************************************************)
(* C5  Folder tracking is independent of the apply outcome                 *)
(***************************************************************************)

\* C5 (as claimed, for batches whose records all resolve): the set the
\* reconciler returned holds the folder of every record that resolves to a folder.
C5_FolderTracking ==
    (ret.returned /\ GatewayUsable /\ AllRoutable)
    => \A i \in 1..Len(batch) :
          get_container_info(batch[i])[2] = "folder"
          => get_container_info(batch[i])[1] \in ret.affected_folders

(***************************************************************************)
(* C6  Commit interpretation                                               *)
(***************************************************************************)

NoFolderRecord ==
    \A i \in 1..Len(batch) :
        Routable(batch[i]) /\ get_container_info(batch[i])[2] \in {"snippet", "device"}

\* C7: a run whose records all target snippets or devices issues no commit
\* call, and what it returns is the flag the reconciler returned.
C7_CommitScoping ==
    NoFolderRecord
    => /\ CallsOf({"commit"}) = {}
       /\ (pc = "done" /\ ret.returned => result = ret.success)

\* a successful snippet/device run with commit_changes set
C7_Witness ==
    /\ pc = "done" /\ commit_changes /\ batch # <<>> /\ NoFolderRecord
    /\ ret.returned /\ ret.success /\ result
    /\ \E i \in 1..Len(batch) : get_container_info(batch[i])[2] = "snippet"
    /\ \E i \in 1..Len(batch) : get_container_info(batch[i])[2] = "device"

(***************************************************************************)
(* C8  Grouping correctness                                                *)
(***************************************************************************)

\* C8 (as claimed, for batches whose records all resolve): when the reconciler
\* has returned, the run issued as many list calls as the batch has distinct
\* (container, kind) pairs.
C8_OneListPerGroup ==
    (ret.returned /\ GatewayUsable /\ AllRoutable)
    => Cardinality(CallsOf({"list"})) = Cardinality(DistinctPairs)

(***************************************************************************)
(* C9  Single batched commit                                               *)
(***************************************************************************)

\* C9: a run issues at most one commit call, and that call carries each folder
\* of the set the reconciler returned exactly once, with sync = true.
C9_SingleBatchedCommit ==
    /\ Cardinality(CallsOf({"commit"})) <= 1
    /\ \A k \in CallsOf({"commit"}) :
          /\ ret.returned
          /\ Range(calls[k].folders) = ret.affected_folders
          /\ Len(calls[k].folders) = Cardinality(ret.affected_folders)
          /\ calls[k].sync = TRUE

\* one commit call covering two folders
C9_Witness ==
    /\ pc = "done"
    /\ \E k \in CallsOf({"commit"}) : Range(calls[k].folders) = {"DMZ", "LAN"}

(***************************************************************************)
(* C10  Container priority                                                 *)
(***************************************************************************)

Set(v) == v # None /\ v # ""

\* the records the grouping loop has placed, with the key it placed them under
Placed ==
    UNION { { <<groups[g].recs[j], groups[g].key>> : j \in 1..Len(groups[g].recs) } :
            g \in 1..Len(groups) }

C10_Priority ==
    /\ \A p \in Placed :
          LET r == batch[p[1]]
          IN  /\ Set(r.folder) => p[2] = <<r.folder, "folder">>
              /\ ~Set(r.folder) /\ Set(r.snippet) => p[2] = <<r.snippet, "snippet">>
              /\ ~Set(r.folder) /\ ~Set(r.snippet) => Set(r.device) /\ p[2] = <<r.device, "device">>
    /\ \A i \in 1..Len(batch) :
          LET r == batch[i]
          IN  (pc \in {"list", "apply", "ret", "done"} /\ ret.returned
               /\ ~Set(r.folder) /\ ~Set(r.snippet) /\ ~Set(r.device))
              => /\ ~ret.success
                 /\ \A p \in Placed : p[1] # i
    /\ \A i \in 1..Len(batch) :
          (mgr = "rule" /\ pc \in {"list", "apply", "ret"}
           /\ (Set(batch[i].folder) \/ Set(batch[i].snippet) \/ Set(batch[i].device)))
          => \E p \in Placed : p[1] = i

\* C10: every record is grouped under its first non-empty field in the order
\* folder, snippet, device; a record with none of them is grouped nowhere and
\* makes the reconciler return failure; and the grouping step, which is where
\* the resolver runs, changes neither the records nor the remote state nor the
\* log of gateway calls.
C10_ContainerPriority ==
    /\ []C10_Priority
    /\ [][pc = "group" => (batch' = batch /\ remote' = remote /\ calls' = calls)]_vars

\* a grouped batch with a folder+snippet record and a snippet+device record
C10_Witness ==
    /\ pc = "list"
    /\ \E p \in Placed : Set(batch[p[1]].folder) /\ Set(batch[p[1]].snippet)
                         /\ p[2] = <<"DMZ", "folder">>
    /\ \E p \in Placed : ~Set(batch[p[1]].folder) /\ Set(batch[p[1]].snippet)
                         /\ Set(batch[p[1]].device) /\ p[2] = <<"DMZ", "snippet">>

(***************************************************************************)
(* C11  Uninitialized gateway                                              *)
(***************************************************************************)

\* the value an operation returns when it fails
FailureValue(op, r) ==
    /\ op \in {"create", "update", "update_by_id", "fetch"} => r.kind = "none"
    /\ op = "list" => r.kind = "list" /\ r.objs = {}
    /\ op = "delete" => r.kind = "bool" /\ ~r.flag
    /\ op = "commit" => /\ r.kind = "dict"
                        /\ r.dict.status = "FAILED"
                        /\ r.dict.error # None

C12_CommitTransportFailure ==
    \A k \in CallsOf({"commit"}) :
        ~calls[k].ok
        => /\ pc = "done"
           /\ op_ret.kind # "raise"
           /\ commit_result.status = "FAILED"
           /\ commit_result.error # None
           /\ request.op = "commit" => op_ret = RetDict(commit_result)
           /\ request.op = "apply" => result = FALSE

\* an apply run of two folders whose commit call raised
C12_Witness ==
    /\ pc = "done"
    /\ request.op = "apply"
    /\ commit_changes
    /\ \E k \in CallsOf({"commit"}) :
          ~calls[k].ok /\ Range(calls[k].folders) = {"DMZ", "LAN"}

(***************************************************************************)
(* C13 - C16  Record Validator                                             *)
(***************************************************************************)

\* the file exists, has a suffix that selects a parser, and parses with it
WellFormed(f) ==
    /\ f.exists
    /\ Lower(f.suffix) \in YamlSuffixes \cup {".json"}
    /\ Parses(IF Lower(f.suffix) \in YamlSuffixes THEN "yaml" ELSE "json", f)

EmptySequenceFile(f) == WellFormed(f) /\ f.shape = "sequence" /\ f.items = <<>>

InvalidRecordFile(f) == WellFormed(f) /\ f.shape = "sequence" /\ ~AllValid(f.items)

\* what the caller of a loader can observe of it: how it ended and the list
CallerView(l) == <<l.how, l.records>>

\* the loader signalled an error: it logged one, or did not return normally
ErrorSignalled(l) == l.logged_error \/ l.how # "return"

\* C13: a well-formed file holding an empty sequence loads to the empty list
\* with no error signalled; a file with an invalid record loads to the empty
\* list with an error signalled; and the caller observes the two differently.
C13_EmptyVsError ==
    pc = "loaded"
    => /\ EmptySequenceFile(file)
          => /\ CallerView(loaded) = <<"return", <<>>>>
             /\ ~ErrorSignalled(loaded)
       /\ InvalidRecordFile(file)
          => /\ CallerView(loaded) = <<"return", <<>>>>
             /\ ErrorSignalled(loaded)
             /\ CallerView(loaded)
                  # CallerView(LoadFile(mgr, [file EXCEPT !.items = <<>>]))

\* C14: a well-formed file whose document is a single valid mapping loads to
\* the list of that one record, with either loader.
C14_SingleMappingNormalized ==
    (pc = "loaded" /\ WellFormed(file) /\ file.shape = "mapping"
     /\ AllValid(file.items))
    => /\ loaded.how = "return"
       /\ loaded.records = <<file.items[1].rec>>

\* C15: an existing .yaml/.yml file is parsed as YAML, a .json file as JSON,
\* and a file of any other suffix is not parsed at all: the loader returns no
\* records and reports the unsupported format.
C15_FormatSelection ==
    (pc = "loaded" /\ file.exists)
    => /\ Lower(file.suffix) \in YamlSuffixes => loaded.parsed_as = "yaml"
       /\ Lower(file.suffix) = ".json" => loaded.parsed_as = "json"
       /\ Lower(file.suffix) \notin YamlSuffixes \cup {".json"}
          => /\ loaded.parsed_as = "none"
             /\ loaded.how = "return"
             /\ loaded.records = <<>>
             /\ loaded.error = "unsupported"

\* C16: a path that does not exist loads to the empty list, with either
\* loader, and nothing is raised.
C16_MissingFileLoadsEmpty ==
    (pc = "loaded" /\ ~file.exists)
    => /\ loaded.how = "return"
       /\ loaded.records = <<>>

\* the rule loader has been given a missing .json path, for which no parser ran
C16_Witness ==
    /\ pc = "loaded"
    /\ mgr = "rule"
    /\ ~file.exists
    /\ file.suffix = ".json"
    /\ loaded.error = "FileNotFoundError"

(***************************************************************************)
(* C17 - C19  Command line interface                                       *)
(***************************************************************************)

\* C17: an apply command whose manager apply returned exits with 0 if it
\* returned true and with 1 if it returned false; a delete command exits with
\* 1 if the delete returned false, and with 0 if it returned true and the
\* commit, when one was asked for, came back with status SUCCESS.
C17_CliExitCodes ==
    pc = "exited"
    => /\ (request.op = "apply" /\ ~request.dry_run /\ loaded.how = "return")
          => exit_code = (IF result THEN 0 ELSE 1)
       /\ (request.op = "delete" /\ op_ret.kind = "bool")
          => /\ ~op_ret.flag => exit_code = 1
             /\ (op_ret.flag /\ (request.commit => commit_result.status = "SUCCESS"))
                => exit_code = 0

\* an apply that failed at the gateway has exited with 1
C17_Witness ==
    /\ pc = "exited"
    /\ request.op = "apply"
    /\ ~request.dry_run
    /\ \E k \in CallsOf({"create"}) : ~calls[k].ok
    /\ ~result
    /\ exit_code = 1

\* C18: an apply command with --dry-run never enters the manager's apply and
\* issues no gateway call, and it exits with 0 exactly when the loader
\* returned at least one record.
C18_DryRun ==
    (request.op = "apply" /\ request.dry_run)
    => /\ calls = <<>>
       /\ remote \in InitialRemotes
       /\ pc \in {"cli", "load", "loaded", "exited"}
       /\ applied = {} /\ ~ret.returned
       /\ pc = "exited"
          => (exit_code = 0 <=> (loaded.how = "return" /\ loaded.records # <<>>))

\* a dry run of a file with two valid records has exited with 0
C18_Witness ==
    /\ pc = "exited"
    /\ request.op = "apply"
    /\ request.dry_run
    /\ Len(loaded.records) = 2
    /\ exit_code = 0

\* the commit ended with status SUCCESS and a job id / with status FAILED
CommitSucceeded == commit_result.status = "SUCCESS" /\ Truthy(commit_result.job_id)
CommitFailed == commit_result.status = "FAILED"

\* C19: the commit subcommand issues one commit call for its container and
\* exits with 0 on a result of status SUCCESS with a job id, with 1 on a result
\* of status FAILED.
C19_CommitSubcommand ==
    (pc = "exited" /\ request.op = "commit" /\ request.creds)
    => /\ Cardinality(CallsOf({"commit"})) = 1
       /\ \A k \in CallsOf({"commit"}) : calls[k].folders = <<request.container>>
       /\ CommitSucceeded => exit_code = 0
       /\ CommitFailed => exit_code = 1

(***************************************************************************)
(* C20  Apply with commit, everything new                                  *)
(***************************************************************************)

\* no list call of the run returned an object a declared record names
NoDeclaredListed ==
    \A k \in CallsOf({"list"}) : \A i \in 1..Len(batch) :
        get_container_info(batch[i]) = calls[k].key
        => batch[i].name \notin { o.name : o \in calls[k].listed }

\* a finished rule run with commit_changes in which no declared rule existed
\* remotely, every create succeeded and the commit came back with status SUCCESS
AllNewCommitted ==
    /\ pc = "done"
    /\ mgr = "rule"
    /\ commit_changes
    /\ batch # <<>>
    /\ NoDeclaredListed
    /\ \A k \in CallsOf({"create"}) : calls[k].ok
    /\ commit_result.status = "SUCCESS"

\* create was called once for every declared rule and commit once
OneCreateEachOneCommit ==
    /\ \A i \in 1..Len(batch) :
          Cardinality({ k \in CallsOf({"create"}) : calls[k].idx = i }) = 1
    /\ CallsOf({"update"}) = {}
    /\ Cardinality(CallsOf({"commit"})) = 1

NewCalls == SubSeq(calls', Len(calls) + 1, Len(calls'))

\* the remote objects of the name, container and kind the request gives
Requested ==
    { o \in remote : /\ o.name = request.name
                     /\ o.container = request.container
                     /\ o.ctype = request.ctype }

C21_DeleteStep ==
    LET new == NewCalls
        fetched == Len(new) >= 1 /\ new[1].op = "fetch" /\ new[1].ok
    IN  /\ op_ret'.kind = "bool"
        /\ \A k \in 1..Len(new) : new[k].op \in {"fetch", "delete"}
        /\ Len(new) >= 1
           => /\ new[1].op = "fetch"
              /\ new[1].name = request.name
              /\ new[1].key = <<request.container, request.ctype>>
        /\ fetched
           => /\ Len(new) = 2
              /\ new[2].op = "delete"
              /\ \E o \in Requested : new[2].id = o.id
              /\ op_ret'.flag = new[2].ok
              /\ remote' = IF new[2].ok
                           THEN { o \in remote : o.id # new[2].id }
                           ELSE remote
        /\ ~fetched
           => /\ \A k \in 1..Len(new) : new[k].op # "delete"
              /\ ~op_ret'.flag
              /\ remote' = remote

\* C21: a delete issues its fetch by (name, container, kind) before anything
\* else; when the fetch returned an object, exactly one delete call with that
\* object's id follows and the result is true, or false without an exception
\* when that call failed; when the fetch found nothing, failed or was not
\* made, no delete call is issued and the result is false.
C21_DeleteByName ==
    [][(pc = "op" /\ request.op = "delete") => C21_DeleteStep]_vars

\* a delete that fetched its object and removed it
C21_Witness ==
    /\ pc = "done"
    /\ request.op = "delete"
    /\ op_ret.flag
    /\ Len(calls) = 2
    /\ calls[1].op = "fetch" /\ calls[1].ok
    /\ calls[2].op = "delete" /\ calls[2].ok

(***************************************************************************)
(* C22  Standalone rule update                                             *)
(***************************************************************************)

\* the remote objects that have the rule's name in the rule's container
NamedLikeRule ==
    LET r == request.rec
        key == get_container_info(r)
    IN  IF key = NoContainer THEN {}
        ELSE { o \in remote : /\ o.name = r.name
                              /\ o.container = key[1]
                              /\ o.ctype = key[2] }

C22_UpdateStep ==
    LET new == NewCalls
        r == request.rec
        key == get_container_info(r)
        fetched == Len(new) >= 1 /\ new[1].op = "fetch" /\ new[1].ok
    IN  /\ remote' = remote
        /\ \A k \in 1..Len(new) : new[k].op \in {"fetch", "update"}
        /\ Len(new) >= 1
           => /\ key # NoContainer
              /\ new[1].op = "fetch"
              /\ new[1].name = r.name
              /\ new[1].key = key
        /\ fetched
           => /\ Len(new) = 2
              /\ new[2].op = "update"
              /\ new[2].key = key
              /\ \E o \in NamedLikeRule : new[2].id = o.id
              /\ op_ret' = IF new[2].ok THEN RetFound(NamedLikeRule) ELSE RetNone
        /\ ~fetched
           => /\ \A k \in 1..Len(new) : new[k].op # "update"
              /\ op_ret' = RetNone
        /\ key = NoContainer => new = <<>>

\* C22: update_rule fetches the rule by name in the container the rule's own
\* fields give and then issues exactly one update call that carries the id of
\* the fetched rule; a rule without a container, and a fetch that finds no
\* rule, give None and no update call.
C22_UpdateRule ==
    [][(pc = "op" /\ request.op = "update" /\ mgr = "rule") => C22_UpdateStep]_vars

\* a rule update that fetched the rule and updated it under the fetched id
C22_Witness ==
    /\ pc = "done"
    /\ request.op = "update" /\ mgr = "rule"
    /\ op_ret.kind = "object"
    /\ Len(calls) = 2
    /\ calls[1].op = "fetch" /\ calls[1].ok
    /\ calls[2].op = "update" /\ calls[2].ok /\ calls[2].id # 0

(***************************************************************************)
(* C23  Ordering inside one apply run                                      *)
(***************************************************************************)

\* the create and update calls of this run
Writes == CallsOf({"create", "update"})

\* C23: in one apply run the list call of a group comes before every create
\* or update of that group's records, the records of a group are applied in
\* file order, and a commit comes after a create or update of every record
\* of the batch and is the last call of the run.
C23_Ordering ==
    /\ \A j \in Writes :
          \E k \in CallsOf({"list"}) : k < j /\ calls[k].key = calls[j].key
    /\ \A i \in Writes : \A j \in Writes :
          (i < j /\ calls[i].key = calls[j].key) => calls[i].idx < calls[j].idx
    /\ \A c \in CallsOf({"commit"}) :
          /\ \A idx \in 1..Len(batch) : \E j \in ApplyCallsFor(idx) : j < c
          /\ \A j \in CallsOf({"list", "create", "update", "commit"}) : j <= c

\* a finished run that applied two records of one group and then committed
C23_Witness ==
    /\ pc = "done"
    /\ CallsOf({"commit"}) # {}
    /\ \E i \in Writes : \E j \in Writes :
          i < j /\ calls[i].key = calls[j].key

(***************************************************************************)
(* C24  No commit after a failed apply                                     *)
(***************************************************************************)

\* C24: when the reconciliation has returned overall failure, the run issues
\* no commit call, whatever commit_changes and the touched folders are, and
\* apply returns false.
C24_NoCommitAfterFailure ==
    (ret.returned /\ ~ret.success)
       => /\ CallsOf({"commit"}) = {}
          /\ pc = "done" => result = FALSE

\* a failed reconciliation that had touched a folder, with the commit asked for
C24_Witness ==
    /\ pc = "done"
    /\ ret.returned /\ ~ret.success
    /\ commit_changes
    /\ ret.affected_folders # {}
    /\ result = FALSE

(***************************************************************************)
(* C25  Apply result                                                       *)
(***************************************************************************)

\* every record of the batch has a create or update call that succeeded
EveryRecordApplied ==
    \A idx \in 1..Len(batch) : \E k \in ApplyCallsFor(idx) : calls[k].ok

\* some record of the batch resolves to a container of kind folder
FolderTouched ==
    \E i \in 1..Len(batch) :
        Routable(batch[i]) /\ get_container_info(batch[i])[2] = "folder"

\* the run has issued one commit and its result passes the commit rule
SingleCommitJudgedSuccessful ==
    /\ Cardinality(CallsOf({"commit"})) = 1
    /\ Truthy(commit_result.job_id)
    /\ commit_result.status \in {"SUCCESS", None}

ApplyCriterion ==
    /\ batch # <<>>
    /\ EveryRecordApplied
    /\ \/ ~commit_changes
       \/ ~FolderTouched
       \/ SingleCommitJudgedSuccessful

\* C25 as stated: apply returns true exactly when the loader returned at least
\* one record, every record's create or update succeeded, and the commit was
\* not requested, or no folder was touched, or the single commit was judged
\* successful.
C25_ApplyResult ==
    pc = "done" => (result = ApplyCriterion)

\* C25 (amended): the same equivalence, except for the address manager in
\* validation mode, whose apply returns true exactly when the loader returned
\* at least one record.
C25_ApplyResultOutsideValidationMode ==
    pc = "done"
    => result = IF mgr = "address" /\ validation_mode
                THEN batch # <<>>
                ELSE ApplyCriterion

\* a run that applied every record, committed once and returned true
C25_Witness ==
    /\ pc = "done"
    /\ ~validation_mode
    /\ result = TRUE
    /\ commit_changes /\ FolderTouched
    /\ SingleCommitJudgedSuccessful

(***************************************************************************)
(* C26  Apply never deletes                                                *)
(***************************************************************************)

\* the object is declared by the batch: a record has its name and resolves
\* to its container
Declared(o) ==
    \E i \in 1..Len(batch) :
        /\ batch[i].name = o.name
        /\ get_container_info(batch[i]) = <<o.container, o.ctype>>

C26_OnlyDeclaredCalls ==
    /\ \A k \in 1..Len(calls) : calls[k].op \in {"list", "create", "update", "commit"}
    /\ \A k \in CallsOf({"create", "update"}) :
          /\ batch[calls[k].idx].name = calls[k].name
          /\ get_container_info(batch[calls[k].idx]) = calls[k].key
    /\ \A k \in CallsOf({"update"}) :
          \A o \in remote : o.id = calls[k].id => Declared(o)

C26_RemoteFrame ==
    /\ remote \subseteq remote'
    /\ \A o \in remote' \ remote : Declared(o)

\* C26: an apply run issues only list, create, update and commit calls; no
\* remote object is ever removed, and the objects it creates or updates all
\* carry a name the batch declares in the container the batch declares it in.
C26_ApplyNeverDeletes ==
    []C26_OnlyDeclaredCalls /\ [][C26_RemoteFrame]_vars

\* a finished run that created an object while the remote system held an
\* object the batch does not declare, which is still there
C26_Witness ==
    /\ pc = "done"
    /\ CallsOf({"create"}) # {}
    /\ \E k \in CallsOf({"create"}) : calls[k].ok
    /\ \E o \in remote : ~Declared(o)

(***************************************************************************)
(* C27  Lookup built once, not refreshed                                   *)
(***************************************************************************)

\* no object of that name was in the container when the run began: every
\* such object now there was created by this run
AbsentAtStart(name, key) ==
    \A o \in remote :
        (o.name = name /\ <<o.container, o.ctype>> = key)
        => \E k \in CallsOf({"create"}) : calls[k].ok /\ calls[k].id = o.id

\* the pairs of records that declare one name twice in one container
SameNameTwice ==
    { p \in (1..Len(batch)) \X (1..Len(batch)) :
        /\ p[1] < p[2]
        /\ batch[p[1]].name = batch[p[2]].name
        /\ Routable(batch[p[1]])
        /\ get_container_info(batch[p[1]]) = get_container_info(batch[p[2]]) }

\* C27 (as claimed): when the reconciler has returned from a batch that
\* declares a name twice in one container where the name was absent, both
\* records were sent to the gateway's create operation.
C27_LookupBuiltOnce ==
    (ret.returned /\ GatewayUsable /\ AllRoutable)
    => \A p \in SameNameTwice :
          AbsentAtStart(batch[p[1]].name, get_container_info(batch[p[1]]))
          => /\ \E k \in ApplyCallsFor(p[1]) : calls[k].op = "create"
             /\ \E k \in ApplyCallsFor(p[2]) : calls[k].op = "create"

(***************************************************************************)
(* C28  Address and rule reconcilers implement the same engine             *)
(***************************************************************************)

ReconcilerCall(c) == c.op \in {"list", "create", "update"}

FirstReconcilerCall(c) == c.run = "first" /\ ReconcilerCall(c)

SecondReconcilerCall(c) == c.run = "second" /\ ReconcilerCall(c)

\* C28 (as claimed): on one batch against one remote state and a gateway that
\* behaves the same, the rule reconciler has issued the sequence of list,
\* create and update calls the address reconciler issued and has returned the
\* same (overall_success, affected_folders).
C28_SameEngine ==
    (run = "second" /\ ret.returned /\ batch # <<>>)
    => LET a == SelectSeq(calls, FirstReconcilerCall)
           b == SelectSeq(calls, SecondReconcilerCall)
       IN  /\ Len(a) = Len(b)
           /\ \A k \in 1..Len(a) :
                 k <= Len(b) => [a[k] EXCEPT !.run = "second"] = b[k]
           /\ \A k \in 1..Len(calls) :
                 calls[k].op = "return"
                 => /\ calls[k].ok = ret.success
                    /\ Range(calls[k].folders) = ret.affected_folders

(***************************************************************************)
(* C29  The delete commands judge the commit as the apply path does        *)
(***************************************************************************)

\* the rule of the apply path: a job id, and a status of SUCCESS or null
ApplyPathJudged(res) ==
    Truthy(res.job_id) /\ res.status \in {"SUCCESS", None}

\* C29 (as claimed): a delete command that has issued its commit exits with 0
\* exactly when the commit's result has a job id and a status of SUCCESS or
\* null.
C29_DeleteCommitJudgedAsApply ==
    (pc = "exited" /\ request.op = "delete" /\ CallsOf({"commit"}) # {})
    => (exit_code = 0 <=> ApplyPathJudged(commit_result))

(***************************************************************************)
(* C30  Commit after delete is folder-scoped                               *)
(***************************************************************************)

\* C30 (as claimed): a delete command issues a commit only when --commit was
\* given, the delete succeeded and the container's kind is folder.
C30_DeleteCommitFolderScoped ==
    (pc = "exited" /\ request.op = "delete" /\ CallsOf({"commit"}) # {})
    => /\ request.commit
       /\ op_ret.flag
       /\ request.ctype = "folder"

====
